---- MODULE Spec2Model ----
(***************************************************************************)
(* A model of geolocate_photos.py: the coordinate conversion deg_to_dms,   *)
(* the track loader extract_points (as called by AppState.edit_gpx) and    *)
(* the tagger tag_photos.                                                  *)
(*                                                                         *)
(* Numbers.  Coordinates are fixed-point integers: one unit is             *)
(* 1/(3600*SubSec) of a degree, so abs(deg)*3600 (seconds) is Abs(deg)     *)
(* units of 1/SubSec of a second, and Python's float divmod on it is the   *)
(* integer \div and % below.  Times are integer ticks; the naive local     *)
(* datetime of the "Datetime" column and the epoch seconds of the          *)
(* "Timestamp" column are the same tick.                                   *)
(***************************************************************************)
EXTENDS Integers, Sequences, FiniteSets, TLC

\* ------------------------------------------------------------------ bounds
\* sub-second resolution of a coordinate (units per arc second)
SubSec == 2
\* deg_to_dms inputs range over -MaxDeg .. MaxDeg degrees
MaxDeg == 6
\* capture times and track times are ticks 0 .. MaxTime
MaxTime == 2
\* offsets are 0 .. MaxOffset ticks, or missing
MaxOffset == 1
\* at most this many paths in photo_paths
MaxPhotos == 2
\* at most this many trkpt elements in a track file
MaxTrkpts == 3

\* ------------------------------------------------------- program constants
\* abs(deg) * 3600
SecPerDeg == 3600
\* divmod(..., 60)
Sixty == 60

DegUnit == SecPerDeg * SubSec

Abs(x) == IF x < 0 THEN -x ELSE x

VARIABLES
    \* deg_to_dms under test
    deg,            \* the argument
    dms,            \* <<>> before the call, <<result>> after it
    \* extract_points / AppState.edit_gpx
    gpx_file,       \* the track file on disk
    gpx_pc,         \* "idle", "loop", "loaded", "failed"
    gpx_i,          \* index of the next trkpt element
    point_list,     \* extract_points' point_list
    as_points_df,   \* AppState.points_df
    \* tag_photos
    points_df,      \* argument: the track
    photo_paths,    \* argument: the listed paths
    photo_date_offset, \* argument: <<>> when not given (None), <<ticks>> otherwise
    overwrite,      \* argument
    files,          \* the file system: path index -> file content
    pc,             \* "start", "loop", "open_wb", "write", "returned", "raised"
    idx,            \* position in the for loop over paths (index into photo_paths)
    photo,          \* the Image object of the current photo
    outcome,        \* per listed path, what tag_photos did with it
    exc,            \* the exception that left tag_photos, "" if none
    files_before,   \* the images on disk when tag_photos was called (never changed)
    del_failed      \* per listed path, whether deleting old tags raised (and was caught)

dmsVars == <<deg, dms>>
gpxVars == <<gpx_file, gpx_pc, gpx_i, point_list, as_points_df>>
tagVars == <<points_df, photo_paths, photo_date_offset, overwrite, files, pc, idx,
             photo, outcome, exc, files_before, del_failed>>
vars == <<dmsVars, gpxVars, tagVars>>

\* ------------------------------------------------------------- deg_to_dms
\* deg_to_dms(deg): d in coordinate units, secs in units of 1/SubSec second.
deg_to_dms(d) ==
    LET total == Abs(d)                          \* abs(deg) * 3600, in 1/SubSec s
        mins0 == total \div (Sixty * SubSec)     \* mins, secs = divmod(.., 60)
        secs  == total % (Sixty * SubSec)
        degs0 == mins0 \div Sixty                \* degs, mins = divmod(mins, 60)
        mins  == mins0 % Sixty
        degs1 == IF d < 0 THEN -degs0 ELSE degs0 \* if deg < 0: degs = -degs
        hemi  == IF degs1 > 0 THEN 1 ELSE -1     \* hemi = 1 if degs > 0 else -1
    IN  [degs |-> degs1 * hemi, mins |-> mins, secs |-> secs, hemi |-> hemi]

\* ------------------------------------------------------------- the inputs
Times == 0 .. MaxTime

\* The route the recorder travelled: where it was at tick t.  The values are
\* multiples of half a degree, so that interpolating over any gap of up to
\* four ticks is exact in coordinate units.
RouteLat(t) == (DegUnit \div 2) * (t * t - 1)
RouteLon(t) == (DegUnit \div 2) * (2 - t * t)

TrackPoint(t) == [Timestamp |-> t, Latitude |-> RouteLat(t), Longitude |-> RouteLon(t)]

RECURSIVE RowsFrom(_, _)
RowsFrom(t, S) ==
    IF t > MaxTime THEN <<>>
    ELSE (IF t \in S THEN <<TrackPoint(t)>> ELSE <<>>) \o RowsFrom(t + 1, S)

\* pd.DataFrame(): no columns at all (AppState's initial and failed-load track)
EmptyDataFrame == [columns |-> FALSE, rows |-> <<>>]
\* pd.DataFrame(point_list, columns=header)
DataFrame(rows) == [columns |-> TRUE, rows |-> rows]

Tracks == {EmptyDataFrame} \cup {DataFrame(RowsFrom(0, S)) : S \in SUBSET Times}

\* The GPS tags of an image: the four attributes tag_photos reads and sets.
NoGps == [present |-> FALSE, lat_ref |-> "", lat |-> <<0, 0, 0>>,
          lon_ref |-> "", lon |-> <<0, 0, 0>>]
OldGps == [present |-> TRUE, lat_ref |-> "S", lat |-> <<33, 51, 54>>,
           lon_ref |-> "W", lon |-> <<70, 40, 12>>]

\* An image's metadata: datetime_original absent, present but not in the
\* "%Y:%m:%d %H:%M:%S" format, or a capture time t.
Image(dt, t, gps) == [datetime_original |-> dt, t |-> t, gps |-> gps]
Images ==
    {Image("absent", 0, NoGps)}
    \cup {Image("unparsable", 0, g) : g \in {NoGps, OldGps}}
    \cup {Image("ok", t, g) : t \in Times, g \in {NoGps, OldGps}}

\* A listed file: its extension and the image it holds.
Listed == {[ext |-> ".png", image |-> Image("absent", 0, NoGps)]}
          \cup {[ext |-> ".JPG", image |-> im] : im \in Images}

RECURSIVE SeqsUpTo(_, _)
SeqsUpTo(S, n) ==
    IF n = 0 THEN {<<>>}
    ELSE LET shorter == SeqsUpTo(S, n - 1)
         IN  shorter \cup {Append(s, x) : s \in {q \in shorter : Len(q) = n - 1}, x \in S}

NoOffset == <<>>
Offsets == {NoOffset} \cup {<<o>> : o \in 0 .. MaxOffset}

\* -------------------------------------------------------------- tag_photos
\* os.path.splitext(f)[1].lower()
Lower(ext) == IF ext = ".JPG" THEN ".jpg" ELSE ext

valid_filetypes == {".jpg", ".jpeg"}

\* paths = [f for f in photo_paths if splitext(f)[1].lower() in valid_filetypes],
\* as indices into photo_paths
RECURSIVE PathsFrom(_)
PathsFrom(k) ==
    IF k > Len(photo_paths) THEN <<>>
    ELSE (IF Lower(photo_paths[k].ext) \in valid_filetypes THEN <<k>> ELSE <<>>)
         \o PathsFrom(k + 1)
paths == PathsFrom(1)

RowTimes == {points_df.rows[j].Timestamp : j \in 1 .. Len(points_df.rows)}
\* points_df["Datetime"].min() and .max(), defined for a track with rows
mindt == CHOOSE t \in RowTimes : \A u \in RowTimes : t <= u
maxdt == CHOOSE t \in RowTimes : \A u \in RowTimes : t >= u

photo_has_datetime(im) == im.datetime_original # "absent"

photo_has_lat_long(im) == im.gps.present

\* get_photo_datetime(photo) returns None when strptime raises
get_photo_datetime_is_None(im) == im.datetime_original # "ok"

\* np.interp(x, xp, fp) over the rows of the track, fp the column `col`
np_interp(x, rows, col) ==
    LET n == Len(rows) IN
    IF x <= rows[1].Timestamp THEN rows[1][col]
    ELSE IF x >= rows[n].Timestamp THEN rows[n][col]
    ELSE LET j == CHOOSE j \in 1 .. n - 1 :
                      rows[j].Timestamp <= x /\ x < rows[j + 1].Timestamp
             x0 == rows[j].Timestamp
             x1 == rows[j + 1].Timestamp
             y0 == rows[j][col]
             y1 == rows[j + 1][col]
         IN  y0 + ((y1 - y0) * (x - x0)) \div (x1 - x0)

\* photodt = get_photo_datetime(photo) + photo_date_offset
photodt_of(im, offset) == im.t + offset[1]

\* A mutant of out_of_bounds: the upper bound is not checked.
out_of_bounds_no_upper(t) == t < mindt

\* photodt < mindt or photodt > maxdt
out_of_bounds(t) == t < mindt \/ t > maxdt

\* A mutant of set_gps_tags: gps_latitude_ref is not assigned.
set_gps_tags_no_lat_ref(im, photolat, photolon) ==
    LET la == deg_to_dms(photolat)
        lo == deg_to_dms(photolon)
    IN  [im EXCEPT !.gps = [present |-> TRUE,
                            lat_ref |-> im.gps.lat_ref,
                            lat |-> <<la.degs, la.mins, la.secs>>,
                            lon_ref |-> IF lo.hemi = 1 THEN "E" ELSE "W",
                            lon |-> <<lo.degs, lo.mins, lo.secs>>]]

\* lines 163-171: the four assignments to the photo's GPS attributes
set_gps_tags(im, photolat, photolon) ==
    LET la == deg_to_dms(photolat)
        lo == deg_to_dms(photolon)
    IN  [im EXCEPT !.gps = [present |-> TRUE,
                            lat_ref |-> IF la.hemi = 1 THEN "N" ELSE "S",
                            lat |-> <<la.degs, la.mins, la.secs>>,
                            lon_ref |-> IF lo.hemi = 1 THEN "E" ELSE "W",
                            lon |-> <<lo.degs, lo.mins, lo.secs>>]]

\* The state every specification starts the tagger in: tag_photos about to
\* be called with the given arguments and the files as they are on disk.
TagInit(track, listed, offset, ow) ==
    /\ points_df = track
    /\ photo_paths = [k \in 1 .. Len(listed) |-> [ext |-> listed[k].ext]]
    /\ photo_date_offset = offset
    /\ overwrite = ow
    /\ files = [k \in 1 .. Len(listed) |-> [bytes |-> "complete", image |-> listed[k].image]]
    /\ files_before = [k \in 1 .. Len(listed) |-> listed[k].image]
    /\ pc = "start"
    /\ idx = 1
    /\ photo = Image("absent", 0, NoGps)
    /\ outcome = [k \in 1 .. Len(listed) |-> "pending"]
    /\ exc = ""
    /\ del_failed = [k \in 1 .. Len(listed) |-> FALSE]

\* the photo the loop is at
cur == paths[idx]

\* leaving tag_photos by an exception
Raise(e) == pc' = "raised" /\ exc' = e

\* `continue`, or the end of the loop body: on to the next path, or return
NextPhoto ==
    /\ idx' = idx + 1
    /\ pc' = IF idx + 1 > Len(paths) THEN "returned" ELSE "loop"

\* lines 120-123: the bounds of the track and the extension filter
Start ==
    /\ pc = "start"
    /\ IF ~points_df.columns
       THEN \* points_df["Datetime"] on a frame without columns
            /\ Raise("KeyError: 'Datetime'")
            /\ UNCHANGED outcome
       ELSE /\ outcome' = [k \in DOMAIN outcome |->
                              IF Lower(photo_paths[k].ext) \in valid_filetypes
                              THEN "pending" ELSE "not a photo"]
            /\ pc' = IF Len(paths) = 0 THEN "returned" ELSE "loop"
            /\ UNCHANGED exc
    /\ UNCHANGED <<points_df, photo_paths, photo_date_offset, overwrite, files,
                   files_before, idx, photo, del_failed>>
    /\ UNCHANGED <<dmsVars, gpxVars>>

\* lines 126-152: load the photo and decide whether it is to be tagged.
\* `readable`: whether open(photo_path, "rb") and Image(image_file) succeed.
Examine ==
    /\ pc = "loop"
    /\ \E readable \in BOOLEAN :
         IF ~readable
         THEN /\ Raise("OSError: cannot open or decode the photo")
              /\ UNCHANGED <<photo, outcome, idx>>
         ELSE LET im == files[cur].image IN
              /\ photo' = im
              /\ IF ~photo_has_datetime(im)
                 THEN /\ outcome' = [outcome EXCEPT ![cur] = "skipping, no time available"]
                      /\ NextPhoto
                      /\ UNCHANGED exc
                 ELSE IF photo_has_lat_long(im) /\ ~overwrite
                 THEN /\ outcome' = [outcome EXCEPT ![cur] = "skipping, location already exists"]
                      /\ NextPhoto
                      /\ UNCHANGED exc
                 ELSE IF get_photo_datetime_is_None(im)
                 THEN \* None + photo_date_offset
                      /\ Raise("TypeError: NoneType + offset")
                      /\ UNCHANGED <<outcome, idx>>
                 ELSE IF photo_date_offset = NoOffset
                 THEN \* datetime + None
                      /\ Raise("TypeError: datetime + NoneType")
                      /\ UNCHANGED <<outcome, idx>>
                 ELSE IF Len(points_df.rows) = 0
                 THEN \* min() of an empty column is not a datetime: the
                      \* comparison, or np.interp on empty samples, raises
                      /\ Raise("TypeError or ValueError: empty track")
                      /\ UNCHANGED <<outcome, idx>>
                 ELSE IF out_of_bounds(photodt_of(im, photo_date_offset))
                 THEN /\ outcome' = [outcome EXCEPT ![cur] = "skipping, outside of bounds"]
                      /\ NextPhoto
                      /\ UNCHANGED exc
                 ELSE /\ outcome' = [outcome EXCEPT ![cur] = "adding location"]
                      /\ pc' = "open_wb"
                      /\ UNCHANGED <<exc, idx>>
    /\ UNCHANGED <<points_df, photo_paths, photo_date_offset, overwrite, files,
                   files_before, del_failed>>
    /\ UNCHANGED <<dmsVars, gpxVars>>

\* line 155: open(photo_path, "wb") truncates the file.
\* `writable`: whether the open succeeds.
OpenForWriting ==
    /\ pc = "open_wb"
    /\ \E writable \in BOOLEAN :
         IF writable
         THEN /\ files' = [files EXCEPT ![cur].bytes = "empty"]
              /\ pc' = "write"
              /\ UNCHANGED exc
         ELSE /\ Raise("OSError: cannot open the photo for writing")
              /\ UNCHANGED files
    /\ UNCHANGED <<points_df, photo_paths, photo_date_offset, overwrite,
                   files_before, idx, photo, outcome, del_failed>>
    /\ UNCHANGED <<dmsVars, gpxVars>>

\* lines 151-152: the interpolated position of the loaded photo
photolat == np_interp(photodt_of(photo, photo_date_offset), points_df.rows, "Latitude")
photolon == np_interp(photodt_of(photo, photo_date_offset), points_df.rows, "Longitude")

\* lines 156-173: the body of the `with open(photo_path, "wb")` block.
\* `del_raises`: whether a `del photo.gps_...` raises (caught and printed);
\* `fault`: "none", or the exif library raising while the tags are set or the
\* file is serialised ("exif"), or image_file.write failing midway ("write").
WriteBack ==
    /\ pc = "write"
    /\ \E del_raises \in BOOLEAN, fault \in {"none", "exif", "write"} :
         LET deleting == overwrite /\ photo.gps.present
             tagged == set_gps_tags(photo, photolat, photolon)
         IN  /\ del_raises => deleting
             /\ del_failed' = [del_failed EXCEPT ![cur] = del_raises]
             /\ photo' = IF fault = "exif" THEN photo ELSE tagged
             /\ IF fault = "none"
                THEN /\ files' = [files EXCEPT ![cur] = [bytes |-> "complete", image |-> tagged]]
                     /\ outcome' = [outcome EXCEPT ![cur] = "tagged"]
                     /\ NextPhoto
                     /\ UNCHANGED exc
                ELSE IF fault = "exif"
                THEN /\ Raise("exif: cannot set the tags or serialise the photo")
                     /\ UNCHANGED <<files, outcome, idx>>
                ELSE /\ files' = [files EXCEPT ![cur].bytes = "partial"]
                     /\ Raise("OSError: write failed")
                     /\ UNCHANGED <<outcome, idx>>
    /\ UNCHANGED <<points_df, photo_paths, photo_date_offset, overwrite, files_before>>
    /\ UNCHANGED <<dmsVars, gpxVars>>


\* ------------------------------------------- extract_points and edit_gpx
\* A trkpt element: whether it has a time child, and lat and lon attributes.
Trkpt(has_time, has_lat, has_lon, t) ==
    [has_time |-> has_time, has_lat |-> has_lat, has_lon |-> has_lon, t |-> t]
Trkpts ==
    {Trkpt(TRUE, TRUE, TRUE, t) : t \in Times}
    \cup {Trkpt(FALSE, TRUE, TRUE, 0), Trkpt(TRUE, FALSE, TRUE, 0), Trkpt(TRUE, TRUE, FALSE, 0)}

\* The track file: whether ET.parse accepts it, and its trkpt elements in
\* document order.
GpxFiles == {[well_formed |-> w, trkpts |-> e] :
                w \in BOOLEAN, e \in SeqsUpTo(Trkpts, MaxTrkpts)}

\* lines 40-45: what the loop body does with one element: the exception it
\* raises, or "" when it appends a row
trkpt_error(elm) ==
    IF ~elm.has_time THEN "IndexError: list index out of range"
    ELSE IF ~elm.has_lon \/ ~elm.has_lat THEN "TypeError: float() argument is None"
    ELSE ""

\* edit_gpx, lines 318-320, and extract_points, lines 30-36: parse the file.
\* A ParseError is caught by edit_gpx, lines 321-323.
EditGpx ==
    /\ gpx_pc = "idle"
    /\ IF gpx_file.well_formed
       THEN /\ gpx_pc' = "loop"
            /\ UNCHANGED as_points_df
       ELSE /\ gpx_pc' = "failed"
            /\ as_points_df' = EmptyDataFrame
    /\ gpx_i' = 1
    /\ point_list' = <<>>
    /\ UNCHANGED <<gpx_file, dmsVars, tagVars>>

\* lines 39-45: one turn of the loop over the trkpt elements; an exception
\* leaves extract_points and is caught by edit_gpx, lines 321-323
ExtractPoint ==
    /\ gpx_pc = "loop"
    /\ gpx_i <= Len(gpx_file.trkpts)
    /\ LET elm == gpx_file.trkpts[gpx_i] IN
       IF trkpt_error(elm) = ""
       THEN /\ point_list' = Append(point_list, TrackPoint(elm.t))
            /\ gpx_i' = gpx_i + 1
            /\ UNCHANGED <<gpx_pc, as_points_df>>
       ELSE /\ gpx_pc' = "failed"
            /\ as_points_df' = EmptyDataFrame
            /\ UNCHANGED <<point_list, gpx_i>>
    /\ UNCHANGED <<gpx_file, dmsVars, tagVars>>

\* lines 47-48 and 320: the frame is built and stored
StorePoints ==
    /\ gpx_pc = "loop"
    /\ gpx_i > Len(gpx_file.trkpts)
    /\ as_points_df' = DataFrame(point_list)
    /\ gpx_pc' = "loaded"
    /\ UNCHANGED <<gpx_file, gpx_i, point_list, dmsVars, tagVars>>

\* -------------------------------------------------------------- deg_to_dms
\* the grid of arguments: every sixteenth of a degree (3'45") in range
DegGrid == {k * (DegUnit \div 16) : k \in -(16 * MaxDeg) .. 16 * MaxDeg}

Convert ==
    /\ dms = <<>>
    /\ dms' = <<deg_to_dms(deg)>>
    /\ UNCHANGED <<deg, gpxVars, tagVars>>

\* --------------------------------------------------------- specifications
DmsIdle == deg = 0 /\ dms = <<>>
GpxIdle == gpx_file = [well_formed |-> TRUE, trkpts |-> <<>>] /\ gpx_pc = "idle" /\ gpx_i = 1 /\ point_list = <<>>
           /\ as_points_df = EmptyDataFrame

\* tag_photos, called with any track, list, offset and overwrite flag
Init ==
    /\ DmsIdle
    /\ GpxIdle
    /\ \E track \in Tracks, listed \in SeqsUpTo(Listed, MaxPhotos),
          offset \in Offsets, ow \in BOOLEAN :
         TagInit(track, listed, offset, ow)

Next == Start \/ Examine \/ OpenForWriting \/ WriteBack

Spec == Init /\ [][Next]_vars

\* deg_to_dms, called with any argument of the grid
InitDms ==
    /\ deg \in DegGrid
    /\ dms = <<>>
    /\ GpxIdle
    /\ TagInit(EmptyDataFrame, <<>>, NoOffset, FALSE)

NextDms == Convert

SpecDms == InitDms /\ [][NextDms]_vars

\* AppState.edit_gpx, called with the path of any track file
InitGpx ==
    /\ DmsIdle
    /\ gpx_file \in GpxFiles
    /\ gpx_pc = "idle" /\ gpx_i = 1 /\ point_list = <<>>
    /\ as_points_df = EmptyDataFrame
    /\ TagInit(EmptyDataFrame, <<>>, NoOffset, FALSE)

NextGpx == EditGpx \/ ExtractPoint \/ StorePoints

SpecGpx == InitGpx /\ [][NextGpx]_vars

\* ------------------------------------------------------------- the claims
Listing == 1 .. Len(photo_paths)
Allowed(k) == Lower(photo_paths[k].ext) \in valid_filetypes
Untouched(k) == files[k] = [bytes |-> "complete", image |-> files_before[k]]

\* capture time + offset lies within [min track time, max track time]
InBounds(k) ==
    /\ photo_date_offset # NoOffset
    /\ \E a, b \in 1 .. Len(points_df.rows) :
          /\ points_df.rows[a].Timestamp <= files_before[k].t + photo_date_offset[1]
          /\ files_before[k].t + photo_date_offset[1] <= points_df.rows[b].Timestamp

\* the signed position a set of GPS tags denotes, in coordinate units
Signed(ref, d) ==
    (IF ref \in {"N", "E"} THEN 1 ELSE -1)
    * (d[1] * DegUnit + d[2] * Sixty * SubSec + d[3])

\* the position of photo k interpolated from the track at capture time + offset
Interpolated(k, col) ==
    np_interp(files_before[k].t + photo_date_offset[1], points_df.rows, col)

\* the tags tag_photos computes for photo k
NewGps(k) == set_gps_tags(files_before[k], Interpolated(k, "Latitude"),
                          Interpolated(k, "Longitude")).gps

\* C1: a photo's file is changed by tag_photos only if the photo has a usable
\* capture timestamp and capture time + offset lies within the bounds of the
\* track, both ends included; and a photo that already carries GPS tags is
\* changed only when overwrite is true.
C1_TaggedOnlyIfEligible ==
    \A k \in Listing :
        ~Untouched(k) =>
            /\ files_before[k].datetime_original = "ok"
            /\ InBounds(k)
            /\ files_before[k].gps.present => overwrite

\* C1's case: a photo whose file has been rewritten with new tags
C1_Witness ==
    \E k \in Listing :
        /\ outcome[k] = "tagged"
        /\ files[k].bytes = "complete"
        /\ files[k].image # files_before[k]

\* the failures of a single photo: opening or decoding it, reading its
\* timestamp, setting its tags, writing it
PhotoFailures ==
    {"OSError: cannot open or decode the photo",
     "TypeError: NoneType + offset",
     "OSError: cannot open the photo for writing",
     "exif: cannot set the tags or serialise the photo",
     "OSError: write failed"}

\* C2: a failure while processing one photo is caught and processing goes on
\* with the next photo: it never leaves tag_photos as an exception.
C2_PhotoFailureIsCaught == ~(pc = "raised" /\ exc \in PhotoFailures)

\* C3: at every point of tag_photos every photo file holds either its complete
\* original content or the complete rewritten content, never an empty or
\* partial file.
C3_FileAlwaysComplete ==
    \A k \in Listing :
        /\ files[k].bytes = "complete"
        /\ files[k].image = files_before[k] \/ files[k].image.gps = NewGps(k)

\* the rows of the well-formed trkpt elements, in document order
RECURSIVE WellFormedRows(_)
WellFormedRows(e) ==
    IF e = <<>> THEN <<>>
    ELSE (IF Head(e).has_time /\ Head(e).has_lat /\ Head(e).has_lon
          THEN <<TrackPoint(Head(e).t)>> ELSE <<>>) \o WellFormedRows(Tail(e))

\* C4: loading a well-formed track file in which some trkpt elements lack a
\* lat or lon attribute or a time child yields all the well-formed points, in
\* file order: the load does not fail.
C4_MalformedPointsAreSkipped ==
    (gpx_file.well_formed /\ gpx_pc \in {"loaded", "failed"}) =>
        /\ gpx_pc = "loaded"
        /\ as_points_df = DataFrame(WellFormedRows(gpx_file.trkpts))

\* C5: deg_to_dms(d) returns hemisphere -1 exactly when d < 0 and +1 otherwise,
\* with degrees, minutes and seconds the divmod decomposition of |d| * 3600.
C5_HemisphereIsSignOfInput ==
    dms # <<>> =>
        /\ dms[1].hemi = (IF deg < 0 THEN -1 ELSE 1)
        /\ dms[1].degs = Abs(deg) \div DegUnit
        /\ dms[1].mins = (Abs(deg) \div (Sixty * SubSec)) % Sixty
        /\ dms[1].secs = Abs(deg) % (Sixty * SubSec)

\* C6: a photo whose capture timestamp is absent or unparsable is always
\* skipped by tag_photos: its file is untouched, it is never tagged, and
\* examining it does not end the run.
C6_NoTimestampIsSkipped ==
    \A k \in Listing :
        (Allowed(k) /\ files_before[k].datetime_original # "ok") =>
            /\ Untouched(k)
            /\ outcome[k] \in {"pending", "skipping, no time available",
                               "skipping, location already exists"}
            /\ ~(pc = "raised" /\ exc = "TypeError: NoneType + offset" /\ cur = k)

\* the four tags of photo k recomputed from the track: the sexagesimal form
\* of the interpolated position and the reference letters of its hemispheres
Recomputed(k) ==
    LET la == deg_to_dms(Interpolated(k, "Latitude"))
        lo == deg_to_dms(Interpolated(k, "Longitude"))
    IN  [present |-> TRUE,
         lat_ref |-> IF la.hemi = 1 THEN "N" ELSE "S",
         lat |-> <<la.degs, la.mins, la.secs>>,
         lon_ref |-> IF lo.hemi = 1 THEN "E" ELSE "W",
         lon |-> <<lo.degs, lo.mins, lo.secs>>]

\* photo k already has GPS tags, a usable timestamp and an in-bounds time
C7_Case(k) ==
    /\ Allowed(k)
    /\ files_before[k].gps.present
    /\ files_before[k].datetime_original = "ok"
    /\ InBounds(k)

C8_InBoundsPhotoGetsInterpolatedPosition ==
    pc = "returned" =>
        \A k \in Listing :
            (/\ Allowed(k)
             /\ files_before[k].datetime_original = "ok"
             /\ ~files_before[k].gps.present
             /\ photo_date_offset # NoOffset) =>
                IF InBounds(k)
                THEN /\ files[k].bytes = "complete"
                     /\ files[k].image.gps.present
                     /\ Signed(files[k].image.gps.lat_ref, files[k].image.gps.lat)
                            = Interpolated(k, "Latitude")
                     /\ Signed(files[k].image.gps.lon_ref, files[k].image.gps.lon)
                            = Interpolated(k, "Longitude")
                ELSE Untouched(k)

\* C9: a missing offset is treated as zero, not as an error: a call without
\* an offset never fails for want of one.
C9_MissingOffsetIsZero ==
    photo_date_offset = NoOffset => exc # "TypeError: datetime + NoneType"

\* hemisphere * (degrees + minutes/60 + seconds/3600), in coordinate units
dms_to_decimal(r) ==
    r.hemi * (r.degs * DegUnit + r.mins * Sixty * SubSec + r.secs)

\* C10: converting deg_to_dms(d) back to decimal gives d, and the components
\* satisfy degrees >= 0, 0 <= minutes < 60, 0 <= seconds < 60.
C10_RoundTrip ==
    dms # <<>> =>
        /\ dms_to_decimal(dms[1]) = deg
        /\ dms[1].degs >= 0
        /\ dms[1].mins >= 0 /\ dms[1].mins < Sixty
        /\ dms[1].secs >= 0 /\ dms[1].secs < Sixty * SubSec

====
